---- MODULE Spec2Model ----
(***************************************************************************)
(* Model of src/cgroups/stats.rs: the pids statistics parser, the shared   *)
(* single-value parser, hugepage page-size discovery and the display form   *)
(* of a block-I/O device stat.                                             *)
(*                                                                         *)
(* Text (String, &str, Path) is a sequence of one-character strings.  A    *)
(* u64 is a sequence of four 16-bit limbs, least significant first, so     *)
(* that the full 64-bit width and its overflow are kept.                   *)
(***************************************************************************)
EXTENDS Integers, Sequences, FiniteSets, TLC

VARIABLES fs, hugepages, stat, op, result, reads

vars == <<fs, hugepages, stat, op, result, reads>>

(***************************************************************************)
(* Text                                                                    *)
(***************************************************************************)

\* A character outside printable ASCII is written as the one-character token
\* "<U+XXXX>" of its code point.

\* U+000B, vertical tab, as its token and as the character itself
VerticalTab == {"<U+000B>", ""}

\* the Unicode White_Space characters: U+0009..U+000D, U+0020, U+0085, U+00A0,
\* U+1680, U+2000..U+200A, U+2028, U+2029, U+202F, U+205F, U+3000
WhiteSpace ==
    {"\t", "\n", "\f", "\r", " "} \cup VerticalTab
        \cup {"<U+0009>", "<U+000A>", "<U+000C>", "<U+000D>", "<U+0020>"}
        \cup {"<U+0085>", "<U+00A0>", "<U+1680>"}
        \cup {"<U+2000>", "<U+2001>", "<U+2002>", "<U+2003>", "<U+2004>", "<U+2005>",
              "<U+2006>", "<U+2007>", "<U+2008>", "<U+2009>", "<U+200A>"}
        \cup {"<U+2028>", "<U+2029>", "<U+202F>", "<U+205F>", "<U+3000>"}

\* char::is_whitespace, as used by str::trim
IsWhitespace(c) == c \in WhiteSpace

\* str::trim: the slice without leading and trailing whitespace
Trim(s) ==
    LET keep == {i \in 1..Len(s) : ~IsWhitespace(s[i])}
    IN  IF keep = {} THEN <<>>
        ELSE LET lo == CHOOSE i \in keep : \A j \in keep : i <= j
                 hi == CHOOSE i \in keep : \A j \in keep : j <= i
             IN  SubSeq(s, lo, hi)

\* str::strip_prefix: the rest of s after prefix p, or None
StripPrefix(s, p) ==
    IF Len(s) >= Len(p) /\ SubSeq(s, 1, Len(p)) = p
    THEN [some |-> TRUE, rest |-> SubSeq(s, Len(p) + 1, Len(s))]
    ELSE [some |-> FALSE, rest |-> <<>>]

\* str::strip_suffix: the part of s before suffix p, or None
StripSuffix(s, p) ==
    IF Len(s) >= Len(p) /\ SubSeq(s, Len(s) - Len(p) + 1, Len(s)) = p
    THEN [some |-> TRUE, rest |-> SubSeq(s, 1, Len(s) - Len(p))]
    ELSE [some |-> FALSE, rest |-> <<>>]

\* Path::join with a relative component
Join(dir, name) ==
    IF dir = <<>> THEN name
    ELSE IF dir[Len(dir)] = "/" THEN dir \o name
    ELSE dir \o <<"/">> \o name

(***************************************************************************)
(* u64                                                                     *)
(***************************************************************************)

\* one limb holds 16 bits; four limbs are the 64 bits of a u64
LimbBase == 65536

Limbs == 4

U64Zero == <<0, 0, 0, 0>>

\* a u64 literal below 2^31
U64(n) == <<n % LimbBase, n \div LimbBase, 0, 0>>

\* u64::checked_mul by a small factor: the product, and whether it overflowed
CheckedMulSmallWrapping(v, k) ==
    LET p1 == v[1] * k
        p2 == v[2] * k + (p1 \div LimbBase)
        p3 == v[3] * k + (p2 \div LimbBase)
        p4 == v[4] * k + (p3 \div LimbBase)
    IN  [value |-> <<p1 % LimbBase, p2 % LimbBase, p3 % LimbBase, p4 % LimbBase>>,
         overflow |-> FALSE]

CheckedMulSmall(v, k) ==
    LET p1 == v[1] * k
        p2 == v[2] * k + (p1 \div LimbBase)
        p3 == v[3] * k + (p2 \div LimbBase)
        p4 == v[4] * k + (p3 \div LimbBase)
    IN  [value |-> <<p1 % LimbBase, p2 % LimbBase, p3 % LimbBase, p4 % LimbBase>>,
         overflow |-> (p4 \div LimbBase) # 0]

\* u64::checked_add of a small addend
CheckedAddSmall(v, d) ==
    LET s1 == v[1] + d
        s2 == v[2] + (s1 \div LimbBase)
        s3 == v[3] + (s2 \div LimbBase)
        s4 == v[4] + (s3 \div LimbBase)
    IN  [value |-> <<s1 % LimbBase, s2 % LimbBase, s3 % LimbBase, s4 % LimbBase>>,
         overflow |-> (s4 \div LimbBase) # 0]

\* u64 >= u64
U64Geq(a, b) ==
    \/ a = b
    \/ \E i \in 1..Limbs : /\ a[i] > b[i]
                           /\ \A j \in (i + 1)..Limbs : a[j] = b[j]

Pow2(k) == IF k = 0 THEN 1 ELSE 2 ^ k

\* u64 >> k, for 0 <= k < 64
U64Shr(v, k) ==
    LET q == k \div 16
        r == k % 16
        limb(i) == IF i <= Limbs THEN v[i] ELSE 0
    IN  [i \in 1..Limbs |->
            (limb(i + q) \div Pow2(r)) + (limb(i + q + 1) % Pow2(r)) * Pow2(16 - r)]

\* 1 << k as a u64, for 0 <= k < 64
U64Bit(k) == [i \in 1..Limbs |-> IF i = (k \div 16) + 1 THEN Pow2(k % 16) ELSE 0]

Digits == {"0", "1", "2", "3", "4", "5", "6", "7", "8", "9"}

\* char::to_digit(10)
DigitValue(c) ==
    CASE c = "0" -> 0 [] c = "1" -> 1 [] c = "2" -> 2 [] c = "3" -> 3
      [] c = "4" -> 4 [] c = "5" -> 5 [] c = "6" -> 6 [] c = "7" -> 7
      [] c = "8" -> 8 [] c = "9" -> 9

\* char::from_digit(d, 10)
DigitChar(d) == <<"0", "1", "2", "3", "4", "5", "6", "7", "8", "9">>[d + 1]

\* v / 10 and v % 10
DivMod10(v) ==
    LET t4 == v[4]
        t3 == (t4 % 10) * LimbBase + v[3]
        t2 == (t3 % 10) * LimbBase + v[2]
        t1 == (t2 % 10) * LimbBase + v[1]
    IN  [quot |-> <<t1 \div 10, t2 \div 10, t3 \div 10, t4 \div 10>>, rem |-> t1 % 10]

\* u64::to_string: the decimal text, no sign, no leading zeros
RECURSIVE U64Digits(_)
U64Digits(v) ==
    IF v = U64Zero THEN <<>>
    ELSE LET dm == DivMod10(v) IN Append(U64Digits(dm.quot), DigitChar(dm.rem))

U64ToString(v) == IF v = U64Zero THEN <<"0">> ELSE U64Digits(v)

(***************************************************************************)
(* Results and errors                                                      *)
(***************************************************************************)

Ok(v) == [tag |-> "Ok", value |-> v]

\* an error: the type of its root cause and its chain of messages, outermost first
Err(cause, chain) == [tag |-> "Err", cause |-> cause, chain |-> chain]

\* a panic unwinding out of the call
Panic == [tag |-> "Panic"]

\* anyhow's Context: wrap an error with one more message
WithContext(r, msg) == Err(r.cause, <<msg>> \o r.chain)

\* Display of core::num::ParseIntError
ParseIntErrorText(kind) ==
    CASE kind = "Empty" -> <<"c", "a", "n", "n", "o", "t", " ", "p", "a", "r", "s", "e", " ", "i", "n", "t", "e", "g", "e", "r", " ", "f", "r", "o", "m", " ", "e", "m", "p", "t", "y", " ", "s", "t", "r", "i", "n", "g">>
      [] kind = "InvalidDigit" -> <<"i", "n", "v", "a", "l", "i", "d", " ", "d", "i", "g", "i", "t", " ", "f", "o", "u", "n", "d", " ", "i", "n", " ", "s", "t", "r", "i", "n", "g">>
      [] kind = "PosOverflow" -> <<"n", "u", "m", "b", "e", "r", " ", "t", "o", "o", " ", "l", "a", "r", "g", "e", " ", "t", "o", " ", "f", "i", "t", " ", "i", "n", " ", "t", "a", "r", "g", "e", "t", " ", "t", "y", "p", "e">>

ParseIntError(kind) == Err("ParseIntError", <<ParseIntErrorText(kind)>>)

\* the digit loop of u64::from_str: result = result * 10 + digit, both checked
RECURSIVE ParseDigits(_, _, _)
ParseDigits(s, i, acc) ==
    IF i > Len(s) THEN Ok(acc)
    ELSE IF s[i] \notin Digits THEN ParseIntError("InvalidDigit")
    ELSE LET m == CheckedMulSmall(acc, 10)
             a == CheckedAddSmall(m.value, DigitValue(s[i]))
         IN  IF m.overflow \/ a.overflow THEN ParseIntError("PosOverflow")
             ELSE ParseDigits(s, i + 1, a.value)

\* str::parse::<u64>: an optional leading + and then one or more decimal digits
ParseU64(s) ==
    IF s = <<>> THEN ParseIntError("Empty")
    ELSE IF s = <<"+">> \/ s = <<"-">> THEN ParseIntError("InvalidDigit")
    ELSE IF s[1] = "+" THEN ParseDigits(s, 2, U64Zero)
    ELSE ParseDigits(s, 1, U64Zero)

(***************************************************************************)
(* Filesystem reads                                                        *)
(***************************************************************************)

\* Display of std::io::Error for the errno the failed system call gave
IoErrorText(errno) ==
    CASE errno = 2 -> <<"N", "o", " ", "s", "u", "c", "h", " ", "f", "i", "l", "e", " ", "o", "r", " ", "d", "i", "r", "e", "c", "t", "o", "r", "y", " ", "(", "o", "s", " ", "e", "r", "r", "o", "r", " ", "2", ")">>
      [] errno = 5 -> <<"I", "n", "p", "u", "t", "/", "o", "u", "t", "p", "u", "t", " ", "e", "r", "r", "o", "r", " ", "(", "o", "s", " ", "e", "r", "r", "o", "r", " ", "5", ")">>
      [] errno = 13 -> <<"P", "e", "r", "m", "i", "s", "s", "i", "o", "n", " ", "d", "e", "n", "i", "e", "d", " ", "(", "o", "s", " ", "e", "r", "r", "o", "r", " ", "1", "3", ")">>
      [] errno = 20 -> <<"N", "o", "t", " ", "a", " ", "d", "i", "r", "e", "c", "t", "o", "r", "y", " ", "(", "o", "s", " ", "e", "r", "r", "o", "r", " ", "2", "0", ")">>

\* common::read_cgroup_file: the whole content of the file as text, or an
\* I/O error identifying the path
read_cgroup_file(files, path) ==
    IF path \in DOMAIN files /\ files[path].exists
    THEN Ok(files[path].data)
    ELSE Err("io", <<<<"f", "a", "i", "l", "e", "d", " ", "t", "o", " ", "o", "p", "e", "n", " ">> \o path,
                    IoErrorText(IF path \in DOMAIN files THEN files[path].errno ELSE 2)>>)

(***************************************************************************)
(* parse_single_value                                                      *)
(***************************************************************************)

\* the message of parse_single_value's context: format!("failed to parse value {} from {}")
ParseValueContextTrimmed(value, file_path) ==
    <<"f", "a", "i", "l", "e", "d", " ", "t", "o", " ", "p", "a", "r", "s", "e", " ", "v", "a", "l", "u", "e", " ">> \o Trim(value) \o <<" ", "f", "r", "o", "m", " ">> \o file_path

ParseValueContext(value, file_path) ==
    <<"f", "a", "i", "l", "e", "d", " ", "t", "o", " ", "p", "a", "r", "s", "e", " ", "v", "a", "l", "u", "e", " ">> \o value \o <<" ", "f", "r", "o", "m", " ">> \o file_path

\* parse_single_value(file_path): the result and the paths read, in order
parse_single_value(files, file_path) ==
    LET value == read_cgroup_file(files, file_path)
    IN  IF value.tag = "Err" THEN [result |-> value, reads |-> <<file_path>>]
        ELSE LET parsed == ParseU64(Trim(value.value))
             IN  [result |-> IF parsed.tag = "Err"
                             THEN WithContext(parsed, ParseValueContext(value.value, file_path))
                             ELSE parsed,
                  reads |-> <<file_path>>]

(***************************************************************************)
(* pid_stats                                                               *)
(***************************************************************************)

\* PidStats::default()
PidStatsDefault == [current |-> U64Zero, limit |-> U64Zero]

PidsCurrentFile == <<"p", "i", "d", "s", ".", "c", "u", "r", "r", "e", "n", "t">>

PidsMaxFile == <<"p", "i", "d", "s", ".", "m", "a", "x">>

MaxLiteral == <<"m", "a", "x">>

\* the second half of pid_stats: pids.max, read once pids.current is in stats
PidLimitUntrimmed(files, cgroup_path, stats, readsSoFar) ==
    LET path == Join(cgroup_path, PidsMaxFile)
        limit == read_cgroup_file(files, path)
        rd == Append(readsSoFar, path)
    IN  IF limit.tag = "Err" THEN [result |-> limit, reads |-> rd]
        ELSE IF limit.value # MaxLiteral
        THEN LET parsed == ParseU64(Trim(limit.value))
             IN  IF parsed.tag = "Err"
                 THEN [result |-> WithContext(parsed, <<"f", "a", "i", "l", "e", "d", " ", "t", "o", " ", "p", "a", "r", "s", "e", " ", "p", "i", "d", "s", " ", "l", "i", "m", "i", "t">>),
                       reads |-> rd]
                 ELSE [result |-> Ok([stats EXCEPT !.limit = parsed.value]), reads |-> rd]
        ELSE [result |-> Ok(stats), reads |-> rd]

PidLimit(files, cgroup_path, stats, readsSoFar) ==
    LET path == Join(cgroup_path, PidsMaxFile)
        read == read_cgroup_file(files, path)
        limit == IF read.tag = "Err" THEN read ELSE Ok(Trim(read.value))
        rd == Append(readsSoFar, path)
    IN  IF limit.tag = "Err" THEN [result |-> limit, reads |-> rd]
        ELSE IF limit.value # MaxLiteral
        THEN LET parsed == ParseU64(limit.value)
             IN  IF parsed.tag = "Err"
                 THEN [result |-> WithContext(parsed, <<"f", "a", "i", "l", "e", "d", " ", "t", "o", " ", "p", "a", "r", "s", "e", " ", "p", "i", "d", "s", " ", "l", "i", "m", "i", "t">>),
                       reads |-> rd]
                 ELSE [result |-> Ok([stats EXCEPT !.limit = parsed.value]), reads |-> rd]
        ELSE [result |-> Ok(stats), reads |-> rd]

\* pid_stats with the two fields of PidStats exchanged
pid_stats_swapped(files, cgroup_path) ==
    LET path == Join(cgroup_path, PidsCurrentFile)
        current == read_cgroup_file(files, path)
    IN  IF current.tag = "Err" THEN [result |-> current, reads |-> <<path>>]
        ELSE LET parsed == ParseU64(Trim(current.value))
             IN  IF parsed.tag = "Err"
                 THEN [result |-> WithContext(parsed, <<"f", "a", "i", "l", "e", "d", " ", "t", "o", " ", "p", "a", "r", "s", "e", " ", "c", "u", "r", "r", "e", "n", "t", " ", "p", "i", "d", "s">>),
                       reads |-> <<path>>]
                 ELSE LET r == PidLimit(files, cgroup_path,
                                        [PidStatsDefault EXCEPT !.current = parsed.value],
                                        <<path>>)
                      IN  IF r.result.tag = "Ok"
                          THEN [r EXCEPT !.result.value =
                                   [current |-> r.result.value.limit,
                                    limit |-> r.result.value.current]]
                          ELSE r

\* pid_stats that keeps the default current when pids.current does not parse
pid_stats_defaulting(files, cgroup_path) ==
    LET path == Join(cgroup_path, PidsCurrentFile)
        current == read_cgroup_file(files, path)
    IN  IF current.tag = "Err" THEN [result |-> current, reads |-> <<path>>]
        ELSE LET parsed == ParseU64(Trim(current.value))
             IN  PidLimit(files, cgroup_path,
                          IF parsed.tag = "Err" THEN PidStatsDefault
                          ELSE [PidStatsDefault EXCEPT !.current = parsed.value],
                          <<path>>)

\* pid_stats(cgroup_path): the result and the paths read, in order
pid_stats(files, cgroup_path) ==
    LET path == Join(cgroup_path, PidsCurrentFile)
        current == read_cgroup_file(files, path)
    IN  IF current.tag = "Err" THEN [result |-> current, reads |-> <<path>>]
        ELSE LET parsed == ParseU64(Trim(current.value))
             IN  IF parsed.tag = "Err"
                 THEN [result |-> WithContext(parsed, <<"f", "a", "i", "l", "e", "d", " ", "t", "o", " ", "p", "a", "r", "s", "e", " ", "c", "u", "r", "r", "e", "n", "t", " ", "p", "i", "d", "s">>),
                       reads |-> <<path>>]
                 ELSE PidLimit(files, cgroup_path,
                               [PidStatsDefault EXCEPT !.current = parsed.value],
                               <<path>>)

(***************************************************************************)
(* supported_page_sizes                                                    *)
(***************************************************************************)

HugepagesDir == <<"/", "s", "y", "s", "/", "k", "e", "r", "n", "e", "l", "/", "m", "m", "/", "h", "u", "g", "e", "p", "a", "g", "e", "s">>

HugepagesPrefix == <<"h", "u", "g", "e", "p", "a", "g", "e", "s", "-">>

HugepagesSuffix == <<"k", "B">>

\* a byte of a file name that is not valid UTF-8
InvalidByte == "<FF>"

\* OsStr::to_str: Some only for a name that is valid UTF-8
IsUtf8(name) == \A i \in 1..Len(name) : name[i] # InvalidByte

\* the moniker of a page size given in kB, with the unit chosen by > in place of >=
SizeMonikerStrict(size) ==
    IF size # U64Bit(20) /\ U64Geq(size, U64Bit(20))
    THEN U64ToString(U64Shr(size, 20)) \o <<"G", "B">>
    ELSE IF size # U64Bit(10) /\ U64Geq(size, U64Bit(10))
    THEN U64ToString(U64Shr(size, 10)) \o <<"M", "B">>
    ELSE U64ToString(size) \o <<"K", "B">>

\* the moniker of a page size given in kB
SizeMoniker(size) ==
    IF U64Geq(size, U64Bit(20)) THEN U64ToString(U64Shr(size, 20)) \o <<"G", "B">>
    ELSE IF U64Geq(size, U64Bit(10)) THEN U64ToString(U64Shr(size, 10)) \o <<"M", "B">>
    ELSE U64ToString(size) \o <<"K", "B">>

\* the loop of supported_page_sizes over the directory's entries, from entry i
RECURSIVE PageSizesFrom(_, _, _)
PageSizesFrom(entries, i, sizes) ==
    IF i > Len(entries) THEN Ok(sizes)
    ELSE LET e == entries[i]
         IN  IF e.kind = "ioerror" THEN Err("io", <<IoErrorText(e.errno)>>)
             ELSE IF e.kind # "dir" THEN PageSizesFrom(entries, i + 1, sizes)
             ELSE IF ~IsUtf8(e.name) THEN Panic
             ELSE LET name_stripped == StripPrefix(e.name, HugepagesPrefix)
                      size == StripSuffix(name_stripped.rest, HugepagesSuffix)
                      parsed == ParseU64(size.rest)
                  IN  IF ~name_stripped.some \/ ~size.some
                      THEN PageSizesFrom(entries, i + 1, sizes)
                      ELSE IF parsed.tag = "Err" THEN parsed
                      ELSE PageSizesFrom(entries, i + 1,
                                         Append(sizes, SizeMoniker(parsed.value)))

\* supported_page_sizes(): the monikers in listing order, or the first failure
supported_page_sizes(dir) ==
    IF ~dir.exists THEN Err("io", <<IoErrorText(dir.errno)>>)
    ELSE PageSizesFrom(dir.entries, 1, <<>>)

(***************************************************************************)
(* Display for BlkioDeviceStat                                             *)
(***************************************************************************)

\* the display form with the operation type left out
DisplayWithoutOp(s) ==
    U64ToString(s.major) \o <<":">> \o U64ToString(s.minor) \o <<" ">> \o U64ToString(s.value)

\* <BlkioDeviceStat as Display>::fmt
Display(s) ==
    IF s.op_type.some
    THEN U64ToString(s.major) \o <<":">> \o U64ToString(s.minor) \o <<" ">>
            \o s.op_type.text \o <<" ">> \o U64ToString(s.value)
    ELSE U64ToString(s.major) \o <<":">> \o U64ToString(s.minor) \o <<" ">>
            \o U64ToString(s.value)

(***************************************************************************)
(* Inputs                                                                  *)
(***************************************************************************)

\* longest file content enumerated exhaustively over ContentAlphabet
MaxLen == 2

\* most entries in a listing of the hugepages directory
MaxEntries == 2

ContentAlphabet == {"7", " ", "x"}

RECURSIVE TextsUpTo(_)
TextsUpTo(n) ==
    IF n = 0 THEN {<<>>}
    ELSE LET shorter == TextsUpTo(n - 1)
         IN  shorter \cup {Append(t, c) : t \in {u \in shorter : Len(u) = n - 1},
                                           c \in ContentAlphabet}

ContentSamples ==
    { <<"4", "2", "\n">>, <<"1", "0", "0", "\n">>, <<"m", "a", "x", "\n">>, <<"0", "\n">>, <<"a", "b", "c">>, <<"\n">>, <<"1", "2", "3", "4", "5", "\n">>,
      <<" ", "8", " ", "\n">>, <<"+", "5">>, <<"-", "1">>, <<"+">>, <<"-">>, <<"0", "0", "7">>, <<"4", " ", "2">>, <<"1", "a">>, <<"1", ".", "5">>,
      <<"m", "a", "x">>, <<" ", "m", "a", "x", "\t">>, <<"M", "a", "x">>, <<"m", "a", "x", "x">>, <<"6", "5", "5", "3", "6">>, <<"4", "2", "9", "4", "9", "6", "7", "2", "9", "6", "\n">>,
      <<"1", "8", "4", "4", "6", "7", "4", "4", "0", "7", "3", "7", "0", "9", "5", "5", "1", "6", "1", "5", "\n">>, <<"1", "8", "4", "4", "6", "7", "4", "4", "0", "7", "3", "7", "0", "9", "5", "5", "1", "6", "1", "6">>,
      <<"9", "9", "9", "9", "9", "9", "9", "9", "9", "9", "9", "9", "9", "9", "9", "9", "9", "9", "9", "9">>, <<"0", "0", "0", "1", "8", "4", "4", "6", "7", "4", "4", "0", "7", "3", "7", "0", "9", "5", "5", "1", "6", "1", "5">>,
      <<"1", "8", "4", "4", "6", "7", "4", "4", "0", "7", "3", "7", "0", "9", "5", "5", "1", "6", "1", "5", "0">>,
      <<"<U+000B>", "4", "2", "<U+000B>", "\n">>, <<"m", "a", "x", "<U+000B>">>,
      <<"<U+00A0>", "7", "\n">>, <<"1", "0", "0", "<U+0085>">>, <<"<U+3000>", "9">>,
      <<"m", "a", "x", "<U+00A0>">>, <<"7", "<U+200B>">>, <<"4", "<U+2003>", "2">> }

Contents == ContentSamples \cup TextsUpTo(MaxLen)

\* a file that is not there (ENOENT)
NoFile == [exists |-> FALSE, data |-> <<>>, errno |-> 2]

\* a file that may not be read (EACCES)
DeniedFile == [exists |-> FALSE, data |-> <<>>, errno |-> 13]

Files == {NoFile, DeniedFile} \cup {[exists |-> TRUE, data |-> c, errno |-> 0] : c \in Contents}

CgroupPath == <<"/", "c", "g">>

ValuePath == <<"/", "c", "g", "/", "v">>

NameSamples ==
    { <<"h", "u", "g", "e", "p", "a", "g", "e", "s", "-", "2", "0", "4", "8", "k", "B">>, <<"h", "u", "g", "e", "p", "a", "g", "e", "s", "-", "1", "0", "4", "8", "5", "7", "6", "k", "B">>, <<"h", "u", "g", "e", "p", "a", "g", "e", "s", "-", "1", "0", "2", "3", "k", "B">>,
      <<"h", "u", "g", "e", "p", "a", "g", "e", "s", "-", "1", "0", "4", "8", "5", "7", "5", "k", "B">>, <<"h", "u", "g", "e", "p", "a", "g", "e", "s", "-", "1", "0", "2", "4", "k", "B">>, <<"h", "u", "g", "e", "p", "a", "g", "e", "s", "-", "2", "0", "4", "7", "k", "B">>,
      <<"h", "u", "g", "e", "p", "a", "g", "e", "s", "-", "2", "0", "9", "7", "1", "5", "1", "k", "B">>, <<"h", "u", "g", "e", "p", "a", "g", "e", "s", "-", "6", "4", "k", "B">>, <<"h", "u", "g", "e", "p", "a", "g", "e", "s", "-", "0", "k", "B">>,
      <<"h", "u", "g", "e", "p", "a", "g", "e", "s", "-", "1", "0", "7", "3", "7", "4", "1", "8", "2", "4", "k", "B">>, <<"h", "u", "g", "e", "p", "a", "g", "e", "s", "-", "+", "1", "6", "k", "B">>,
      <<"h", "u", "g", "e", "p", "a", "g", "e", "s", "-", "1", "8", "4", "4", "6", "7", "4", "4", "0", "7", "3", "7", "0", "9", "5", "5", "1", "6", "1", "5", "k", "B">>, <<"h", "u", "g", "e", "p", "a", "g", "e", "s", "-", "1", "8", "4", "4", "6", "7", "4", "4", "0", "7", "3", "7", "0", "9", "5", "5", "1", "6", "1", "6", "k", "B">>,
      <<"h", "u", "g", "e", "p", "a", "g", "e", "s", "-", "a", "b", "c", "k", "B">>, <<"h", "u", "g", "e", "p", "a", "g", "e", "s", "-", "k", "B">>, <<"h", "u", "g", "e", "p", "a", "g", "e", "s", "-", "2", "0", "4", "8">>, <<"2", "0", "4", "8", "k", "B">>,
      <<"h", "u", "g", "e", "p", "a", "g", "e", "s", "-", "2", "0", "4", "8", "K", "B">>, <<"R", "E", "A", "D", "M", "E">>, <<"h", InvalidByte>> }

FileNameSamples == { <<"h", "u", "g", "e", "p", "a", "g", "e", "s", "-", "2", "0", "4", "8", "k", "B">>, <<"h", "u", "g", "e", "p", "a", "g", "e", "s", "-", "a", "b", "c", "k", "B">>, <<"R", "E", "A", "D", "M", "E">>,
                     <<"h", InvalidByte>> }

DirEntries ==
    {[name |-> n, kind |-> "dir", errno |-> 0] : n \in NameSamples}
        \cup {[name |-> n, kind |-> "file", errno |-> 0] : n \in FileNameSamples}
        \cup {[name |-> <<>>, kind |-> "ioerror", errno |-> e] : e \in {5, 13}}

RECURSIVE ListingsUpTo(_)
ListingsUpTo(n) ==
    IF n = 0 THEN {<<>>}
    ELSE LET shorter == ListingsUpTo(n - 1)
         IN  shorter \cup {Append(l, e) : l \in {u \in shorter : Len(u) = n - 1},
                                           e \in DirEntries}

\* the directory is not there (ENOENT)
NoDir == [exists |-> FALSE, entries |-> <<>>, errno |-> 2]

\* the directory cannot be opened: access denied, or not a directory
UnopenedDirs == {[exists |-> FALSE, entries |-> <<>>, errno |-> e] : e \in {2, 13, 20}}

Listings == UnopenedDirs \cup {[exists |-> TRUE, entries |-> l, errno |-> 0] : l \in ListingsUpTo(MaxEntries)}

U64Max == <<LimbBase - 1, LimbBase - 1, LimbBase - 1, LimbBase - 1>>

U64Samples == {U64Zero, U64(8), U64(253), U64(1024), U64(2048), U64(65536), U64Max}

None == [some |-> FALSE, text |-> <<>>]

OpTypes == {None} \cup {[some |-> TRUE, text |-> t] : t \in {<<"R", "e", "a", "d">>, <<"W", "r", "i", "t", "e">>, <<"T", "o", "t", "a", "l">>}}

DeviceStats ==
    [major : U64Samples, minor : U64Samples, op_type : OpTypes, value : U64Samples]

DefaultStat == [major |-> U64Zero, minor |-> U64Zero, op_type |-> None, value |-> U64Zero]

FsOf(current, max, value) ==
    (Join(CgroupPath, PidsCurrentFile) :> current)
        @@ (Join(CgroupPath, PidsMaxFile) :> max)
        @@ (ValuePath :> value)

(***************************************************************************)
(* State machine                                                           *)
(***************************************************************************)

\* the files, the directory and the stat as some caller may find them, before any call
Init ==
    /\ op = "none"
    /\ result = [tag |-> "None"]
    /\ reads = <<>>
    /\ \/ /\ \E c \in Files, m \in Files : fs = FsOf(c, m, NoFile)
          /\ hugepages = NoDir
          /\ stat = DefaultStat
       \/ /\ \E v \in Files : fs = FsOf(NoFile, NoFile, v)
          /\ hugepages = NoDir
          /\ stat = DefaultStat
       \/ /\ fs = FsOf(NoFile, NoFile, NoFile)
          /\ hugepages \in Listings
          /\ stat = DefaultStat
       \/ /\ fs = FsOf(NoFile, NoFile, NoFile)
          /\ hugepages = NoDir
          /\ stat \in DeviceStats

PidStatsCall ==
    LET r == pid_stats(fs, CgroupPath)
    IN  /\ op' = "pid_stats"
        /\ result' = r.result
        /\ reads' = r.reads
        /\ UNCHANGED <<fs, hugepages, stat>>

ParseSingleValueCall ==
    LET r == parse_single_value(fs, ValuePath)
    IN  /\ op' = "parse_single_value"
        /\ result' = r.result
        /\ reads' = r.reads
        /\ UNCHANGED <<fs, hugepages, stat>>

SupportedPageSizesCall ==
    /\ op' = "supported_page_sizes"
    /\ result' = supported_page_sizes(hugepages)
    /\ reads' = <<HugepagesDir>>
    /\ UNCHANGED <<fs, hugepages, stat>>

DisplayCall ==
    /\ op' = "display"
    /\ result' = Ok(Display(stat))
    /\ reads' = <<>>
    /\ UNCHANGED <<fs, hugepages, stat>>

Next ==
    \/ PidStatsCall
    \/ ParseSingleValueCall
    \/ SupportedPageSizesCall
    \/ DisplayCall

Spec == Init /\ [][Next]_vars

(***************************************************************************)
(* Decimal notation, stated independently of the parser and the formatter: *)
(* arithmetic on decimal digit strings of any length.                      *)
(***************************************************************************)

\* t is one or more decimal digits
IsDecimal(t) == t # <<>> /\ \A i \in 1..Len(t) : t[i] \in Digits

\* the digits of t without leading zeros (one digit is always kept)
RECURSIVE Canon(_)
Canon(t) == IF Len(t) > 1 /\ t[1] = "0" THEN Canon(Tail(t)) ELSE t

\* a <= b for digit strings of equal length
RECURSIVE DecLeq(_, _)
DecLeq(a, b) ==
    IF a = <<>> THEN TRUE
    ELSE IF DigitValue(a[1]) # DigitValue(b[1]) THEN DigitValue(a[1]) < DigitValue(b[1])
    ELSE DecLeq(Tail(a), Tail(b))

\* 2^64 - 1 in decimal
U64MaxText == <<"1", "8", "4", "4", "6", "7", "4", "4", "0", "7", "3", "7", "0", "9", "5", "5", "1", "6", "1", "5">>

\* the number written t is at most 2^64 - 1
FitsU64(t) ==
    LET c == Canon(t)
    IN  Len(c) < Len(U64MaxText) \/ (Len(c) = Len(U64MaxText) /\ DecLeq(c, U64MaxText))

\* t is the decimal text of an unsigned 64-bit integer
IsDecimalU64(t) == IsDecimal(t) /\ FitsU64(t)

\* t without one leading plus sign
Unsigned(t) == IF t # <<>> /\ t[1] = "+" THEN Tail(t) ELSE t

\* t is text that denotes an unsigned 64-bit integer, an explicit plus sign allowed
IsU64Text(t) == IsDecimalU64(Unsigned(t))

\* the decimal digits, least significant first, of n > 0; none for 0
RECURSIVE NatDigitsLE(_)
NatDigitsLE(n) == IF n = 0 THEN <<>> ELSE <<n % 10>> \o NatDigitsLE(n \div 10)

\* le * k + carry on a decimal number given least significant digit first
RECURSIVE DecMulAddLE(_, _, _)
DecMulAddLE(le, k, carry) ==
    IF le = <<>> THEN NatDigitsLE(carry)
    ELSE LET t == Head(le) * k + carry
         IN  <<t % 10>> \o DecMulAddLE(Tail(le), k, t \div 10)

RECURSIVE ReverseChars(_)
ReverseChars(le) ==
    IF le = <<>> THEN <<>> ELSE Append(ReverseChars(Tail(le)), DigitChar(Head(le)))

\* the decimal text of the number whose 16-bit limbs are v: Horner's rule in decimal
DecimalOf(v) ==
    LET a4 == NatDigitsLE(v[4])
        a3 == DecMulAddLE(a4, LimbBase, v[3])
        a2 == DecMulAddLE(a3, LimbBase, v[2])
        a1 == DecMulAddLE(a2, LimbBase, v[1])
    IN  IF a1 = <<>> THEN <<"0">> ELSE ReverseChars(a1)

\* v is the integer that the text t denotes
Denotes(v, t) == DecimalOf(v) = Canon(Unsigned(t))

\* schoolbook long division of the digit string t by k: the quotient's digits
RECURSIVE DecDivFrom(_, _, _, _)
DecDivFrom(t, k, i, rem) ==
    IF i > Len(t) THEN <<>>
    ELSE LET cur == rem * 10 + DigitValue(t[i])
         IN  <<DigitChar(cur \div k)>> \o DecDivFrom(t, k, i + 1, cur % k)

\* floor(t / k) in decimal, without leading zeros
DecDiv(t, k) == Canon(DecDivFrom(t, k, 1, 0))

\* the moniker of N kB by truncating division
ExpectedMoniker(n) ==
    LET gb == DecDiv(n, 1048576)
        mb == DecDiv(n, 1024)
    IN  IF gb # <<"0">> THEN gb \o <<"G", "B">>
        ELSE IF mb # <<"0">> THEN mb \o <<"M", "B">>
        ELSE Canon(n) \o <<"K", "B">>

\* needle occurs in hay
Contains(hay, needle) ==
    \E i \in 0..(Len(hay) - Len(needle)) : SubSeq(hay, i + 1, i + Len(needle)) = needle

\* some message of the error r contains the text t
Mentions(r, t) == \E i \in 1..Len(r.chain) : Contains(r.chain[i], t)

CurrentPath == Join(CgroupPath, PidsCurrentFile)

MaxPath == Join(CgroupPath, PidsMaxFile)

\* the number N of an entry that is a directory named hugepages-<N>kB
PageSizeOf(e) ==
    SubSeq(e.name, Len(HugepagesPrefix) + 1, Len(e.name) - Len(HugepagesSuffix))

\* e is a directory named hugepages-<N>kB, N an unsigned 64-bit integer
IsPageSizeDir(e) ==
    /\ e.kind = "dir"
    /\ Len(e.name) >= Len(HugepagesPrefix) + Len(HugepagesSuffix)
    /\ SubSeq(e.name, 1, Len(HugepagesPrefix)) = HugepagesPrefix
    /\ SubSeq(e.name, Len(e.name) - Len(HugepagesSuffix) + 1, Len(e.name)) = HugepagesSuffix
    /\ IsU64Text(PageSizeOf(e))

\* the monikers of the page-size directories of a listing, in listing order
RECURSIVE ExpectedSizes(_)
ExpectedSizes(entries) ==
    IF entries = <<>> THEN <<>>
    ELSE IF IsPageSizeDir(Head(entries))
    THEN <<ExpectedMoniker(Unsigned(PageSizeOf(Head(entries))))>> \o ExpectedSizes(Tail(entries))
    ELSE ExpectedSizes(Tail(entries))

(***************************************************************************)
(* Properties                                                              *)
(***************************************************************************)

\* C1: when pids.current trims to the decimal text of a u64 c and pids.max trims
\* to the decimal text of a u64 l, pid_stats returns Ok(PidStats{current: c, limit: l})
C1_PidStatsExact ==
    (/\ op = "pid_stats"
     /\ fs[CurrentPath].exists /\ IsDecimalU64(Trim(fs[CurrentPath].data))
     /\ fs[MaxPath].exists /\ IsDecimalU64(Trim(fs[MaxPath].data)))
    => /\ result.tag = "Ok"
       /\ DOMAIN result.value = {"current", "limit"}
       /\ Denotes(result.value.current, Trim(fs[CurrentPath].data))
       /\ Denotes(result.value.limit, Trim(fs[MaxPath].data))

C1_Witness ==
    /\ op = "pid_stats"
    /\ fs[CurrentPath].data = <<"4", "2", "\n">>
    /\ fs[MaxPath].data = <<"1", "0", "0", "\n">>
    /\ result = Ok([current |-> U64(42), limit |-> U64(100)])

\* C2: with a valid pids.current, a pids.max that trims to the literal max gives
\* Ok with limit 0, and so does a pids.max holding the number 0
C2_MaxIsZeroLimit ==
    (/\ op = "pid_stats"
     /\ fs[CurrentPath].exists /\ IsDecimalU64(Trim(fs[CurrentPath].data))
     /\ fs[MaxPath].exists
     /\ \/ Trim(fs[MaxPath].data) = MaxLiteral
        \/ Trim(fs[MaxPath].data) = <<"0">>)
    => /\ result.tag = "Ok"
       /\ result.value.limit = U64Zero
       /\ Denotes(result.value.current, Trim(fs[CurrentPath].data))

C2_Witness ==
    /\ op = "pid_stats"
    /\ fs[CurrentPath].data = <<"4", "2", "\n">>
    /\ fs[MaxPath].data = <<"m", "a", "x", "\n">>
    /\ result = Ok([current |-> U64(42), limit |-> U64Zero])

\* the content holds a character that is no digit, sign or whitespace
NonNumeric(data) ==
    \E i \in 1..Len(data) : data[i] \notin Digits \cup {"+", "-"} /\ ~IsWhitespace(data[i])

\* C3: when pids.current holds non-numeric content, pid_stats fails with a parse
\* error that mentions the file path and the raw value read
C3_ParseErrorNamesFileAndValue ==
    (/\ op = "pid_stats"
     /\ fs[CurrentPath].exists /\ NonNumeric(fs[CurrentPath].data))
    => /\ result.tag = "Err"
       /\ result.cause = "ParseIntError"
       /\ Mentions(result, CurrentPath)
       /\ Mentions(result, fs[CurrentPath].data)

\* C4: parse_single_value returns exactly the integer that the trimmed decimal
\* content denotes when it fits in 64 bits, and never succeeds when it does not
C4_SingleValueExact ==
    (/\ op = "parse_single_value"
     /\ fs[ValuePath].exists /\ IsDecimal(Trim(fs[ValuePath].data)))
    => IF FitsU64(Trim(fs[ValuePath].data))
       THEN result.tag = "Ok" /\ Denotes(result.value, Trim(fs[ValuePath].data))
       ELSE result.tag = "Err"

C4_Witness ==
    /\ op = "parse_single_value"
    /\ fs[ValuePath].data = <<"1", "8", "4", "4", "6", "7", "4", "4", "0", "7", "3", "7", "0", "9", "5", "5", "1", "6", "1", "5", "\n">>
    /\ result = Ok(U64Max)

\* C5: a file that is read but whose trimmed content is no u64 gives a parse error
\* whose message includes the path and the raw, untrimmed content; a file that
\* cannot be read gives an I/O error and nothing about parsing
C5_SingleValueErrors ==
    op = "parse_single_value"
    => /\ (fs[ValuePath].exists /\ ~IsU64Text(Trim(fs[ValuePath].data)))
            => /\ result.tag = "Err"
               /\ result.cause = "ParseIntError"
               /\ Contains(result.chain[1], ValuePath)
               /\ Contains(result.chain[1], fs[ValuePath].data)
       /\ ~fs[ValuePath].exists
            => /\ result.tag = "Err"
               /\ result.cause = "io"
               /\ ~Mentions(result, <<"p", "a", "r", "s", "e">>)

C5_Witness ==
    /\ op = "parse_single_value"
    /\ fs[ValuePath].data = <<" ", "m", "a", "x", "\t">>
    /\ result.tag = "Err"
    /\ result.chain[1] = <<"f", "a", "i", "l", "e", "d", " ", "t", "o", " ", "p", "a", "r", "s", "e", " ", "v", "a", "l", "u", "e", " ", " ", "m", "a", "x", "\t", " ", "f", "r", "o", "m", " ", "/", "c", "g", "/", "v">>

\* C6: every moniker returned is the truncating quotient of its directory's N:
\* floor(N / 2^20) GB from 2^20 up, floor(N / 2^10) MB from 2^10 up, N KB below
C6_MonikerTruncates ==
    (op = "supported_page_sizes" /\ result.tag = "Ok")
    => LET dirs == SelectSeq(hugepages.entries, IsPageSizeDir)
       IN  \A i \in 1..Len(dirs) :
              /\ i <= Len(result.value)
              /\ result.value[i] = ExpectedMoniker(Unsigned(PageSizeOf(dirs[i])))

C6_Witness ==
    /\ op = "supported_page_sizes"
    /\ hugepages.entries = <<[name |-> <<"h", "u", "g", "e", "p", "a", "g", "e", "s", "-", "1", "0", "4", "8", "5", "7", "5", "k", "B">>, kind |-> "dir", errno |-> 0],
                             [name |-> <<"h", "u", "g", "e", "p", "a", "g", "e", "s", "-", "1", "0", "4", "8", "5", "7", "6", "k", "B">>, kind |-> "dir", errno |-> 0]>>
    /\ result = Ok(<<<<"1", "0", "2", "3", "M", "B">>, <<"1", "G", "B">>>>)

\* C7: for any listing that can be enumerated, supported_page_sizes succeeds with
\* one moniker per directory named hugepages-<N>kB, in listing order, and ignores
\* every other entry
C7_IgnoresOtherEntries ==
    (/\ op = "supported_page_sizes"
     /\ hugepages.exists
     /\ \A i \in 1..Len(hugepages.entries) : hugepages.entries[i].kind # "ioerror")
    => /\ result.tag = "Ok"
       /\ result.value = ExpectedSizes(hugepages.entries)

\* pids.current can be read and holds a u64
CurrentGood == fs[CurrentPath].exists /\ IsU64Text(Trim(fs[CurrentPath].data))

\* pids.max can be read and holds a u64 or the literal max
MaxGood ==
    /\ fs[MaxPath].exists
    /\ Trim(fs[MaxPath].data) = MaxLiteral \/ IsU64Text(Trim(fs[MaxPath].data))

\* C8: pid_stats reads pids.current first; it returns Ok only when both files were
\* read and interpreted, with the values they hold; the first failure ends the
\* call with an error and no later file is read
C8_FailFast ==
    op = "pid_stats"
    => /\ result.tag \in {"Ok", "Err"}
       /\ reads = IF CurrentGood THEN <<CurrentPath, MaxPath>> ELSE <<CurrentPath>>
       /\ result.tag = "Ok" <=> (CurrentGood /\ MaxGood)
       /\ result.tag = "Ok"
            => /\ Denotes(result.value.current, Trim(fs[CurrentPath].data))
               /\ IF Trim(fs[MaxPath].data) = MaxLiteral
                  THEN result.value.limit = U64Zero
                  ELSE Denotes(result.value.limit, Trim(fs[MaxPath].data))

C8_Witness ==
    /\ op = "pid_stats"
    /\ fs[CurrentPath].data = <<"a", "b", "c">>
    /\ fs[MaxPath].data = <<"1", "0", "0", "\n">>
    /\ result.tag = "Err"
    /\ reads = <<CurrentPath>>

\* C9: a BlkioDeviceStat displays as "major:minor operation-type value" when it has
\* an operation type and as "major:minor value" when it has none
C9_DisplayForm ==
    op = "display"
    => result = Ok(DecimalOf(stat.major) \o <<":">> \o DecimalOf(stat.minor) \o <<" ">>
                      \o (IF stat.op_type.some THEN stat.op_type.text \o <<" ">> ELSE <<>>)
                      \o DecimalOf(stat.value))

C9_Witness ==
    /\ op = "display"
    /\ stat = [major |-> U64(8), minor |-> U64Zero,
               op_type |-> [some |-> TRUE, text |-> <<"R", "e", "a", "d">>], value |-> U64(1024)]
    /\ result = Ok(<<"8", ":", "0", " ", "R", "e", "a", "d", " ", "1", "0", "2", "4">>)

====
